---- MODULE Spec2Model ----
(***************************************************************************)
(* Model of the reflection-driven persistence base class Model             *)
(* (src/Model.hpp, src/Model.cpp) against an abstract SQL database.        *)
(*                                                                         *)
(* The heap is a sequence of Model instances, the database a table of rows *)
(* per entity type plus the connection's last-inserted row id.  Every      *)
(* public method of Model is an operator from a "world" (heap, database,   *)
(* statement log) to a world and a return value, written after the C++     *)
(* body; every action of the specification is one call of a public method  *)
(* (or of a subclass constructor or setter) by the application.            *)
(***************************************************************************)
EXTENDS Integers, Sequences, FiniteSets, TLC

(* ------------------------------ bounds --------------------------------- *)
MaxObjs == 2      \* Model instances ever constructed
MaxRows == 4      \* rows per table
MaxVal == 1       \* scalar attribute values 1..MaxVal
MaxFault == 3     \* the n-th prepare()/exec() call of an operation may fail, n <= MaxFault
MaxNodes == 3     \* Model instances ever constructed, in the runs on chains of Nodes

(* QVariant::toUInt() of a 64-bit id keeps its low 32 bits.  TLC's own      *)
(* integers are 32-bit signed, so the range of uint is scaled by 2 bits:   *)
(* W32 stands for 2^32, and every id of the model is below 2 * W32.        *)
W32 == 1073741824

toUInt(n) == n % W32

(* ------------------------------ schema --------------------------------- *)
(* Two concrete subclasses, as in the library's intended use:              *)
(*   Order    { total : number, customer : Customer* }                     *)
(*   Customer { credit : number }                                          *)
(* and, for the runs on a self-referential table,                          *)
(*   Node     { parent : Node* }                                           *)
Types == {"Order", "Customer"}

Props(t) ==
    IF t = "Order" THEN <<"total", "customer">>
    ELSE IF t = "Customer" THEN <<"credit">>
    ELSE <<"parent">>

PropSet(t) == {Props(t)[i] : i \in 1..Len(Props(t))}

tableName(t) == t

isPropertyModel(t, p) == (t = "Order" /\ p = "customer") \/ (t = "Node" /\ p = "parent")

relatedType(t, p) == IF t = "Node" THEN "Node" ELSE "Customer"

(* ------------------------------ values --------------------------------- *)
(* A column value / bound value is a QVariant: <<"int", n>> (LongLong),    *)
(* <<"null", 0>> (SQL NULL), <<"text", 0>> (a non-numeric text, which is   *)
(* what a bound Model* becomes), <<"none", 0>> (placeholder not bound).    *)
IntV(n) == <<"int", n>>
NullV == <<"null", 0>>
TextV == <<"text", 0>>
NoneV == <<"none", 0>>

NoKey == 0 - 1        \* dynamic property "<name>Id" absent
InvalidId == 0 - 1    \* lastInsertId() is an invalid QVariant
nullptr == 0

(* A freshly constructed instance: the constructor does not initialise     *)
(* m_id, so it holds the indeterminate value g.                            *)
Model(t, g) ==
    [type |-> t, m_id |-> g, mod |-> {},
     props |-> [p \in PropSet(t) |-> 0],
     dyn |-> [p \in PropSet(t) |-> NoKey],
     deleteLater |-> FALSE]

id(m) == m.m_id

isSaved(m) == m.m_id # 0

isModified(m) == m.mod # {}

setId(w, o, newId) == [w EXCEPT !.heap[o].m_id = newId]

setModified(w, o, p) == [w EXCEPT !.heap[o].mod = @ \cup {p}]

(* QMetaProperty::write with a value of the property's type: the          *)
(* subclass setter stores it and calls setModified(name).                  *)
write(w, o, p, v) == setModified([w EXCEPT !.heap[o].props[p] = v], o, p)

(* QMetaProperty::read, as the QVariant handed to bindValue: a number, a   *)
(* null pointer (binds NULL) or a Model* (no numeric conversion: text).    *)
read(w, o, p) ==
    LET m == w.heap[o] IN
    IF isPropertyModel(m.type, p)
    THEN IF m.props[p] = nullptr THEN NullV ELSE TextV
    ELSE IntV(m.props[p])

(* --------------------------- the database ------------------------------ *)
(* One prepare() or exec() call on the connection: the call counter goes   *)
(* up, and the call whose number is w.fault fails.                         *)
dbCall(w) == [w |-> [w EXCEPT !.calls = @ + 1], ok |-> w.calls + 1 # w.fault]

logStmt(w, s) == [w EXCEPT !.log = Append(@, s)]

Stmt(kind, t, cols, binds, rowId) ==
    [kind |-> kind, table |-> tableName(t), cols |-> cols,
     binds |-> [p \in PropSet(t) |-> IF p \in cols THEN binds[p] ELSE NoneV],
     id |-> rowId, ok |-> TRUE, found |-> FALSE, by |-> 0]

MaxOf(S) == IF S = {} THEN 0 ELSE CHOOSE x \in S : \A y \in S : y <= x

(* The id the database generates for a new row of the table. *)
nextRowId(tbl) == MaxOf(DOMAIN tbl) + 1

(* The statement as it stands in the log: by is the instance whose call    *)
(* handed it to exec().                                                    *)
IssuedBy(o, s) == [s EXCEPT !.by = o]

(* The effect of a successfully executed statement on the tables and on    *)
(* the connection's last inserted row id.                                  *)
dbApply(w, s) ==
    LET tbl == w.db[s.table] IN
    CASE s.kind = "INSERT" ->
           LET k == nextRowId(tbl) IN
           [w EXCEPT !.db[s.table] = [r \in DOMAIN tbl \cup {k} |->
                                         IF r = k THEN s.binds ELSE tbl[r]],
                     !.lastId = k]
      [] s.kind = "UPDATE" ->
           IF s.id \in DOMAIN tbl
           THEN [w EXCEPT !.db[s.table][s.id] =
                    [p \in DOMAIN @ |-> IF p \in s.cols THEN s.binds[p] ELSE @[p]]]
           ELSE w
      [] s.kind = "DELETE" ->
           [w EXCEPT !.db[s.table] = [r \in DOMAIN tbl \ {s.id} |-> tbl[r]]]
      [] OTHER -> w

(* QSqlQuery::lastInsertId() after a successful exec(): the generated id   *)
(* after an INSERT; after any other statement the driver reports either    *)
(* nothing or (w.stale) the connection's last inserted row id, if any.     *)
lastInsertId(w, s) ==
    IF s.kind = "INSERT" THEN w.lastId
    ELSE IF w.stale /\ w.lastId # 0 THEN w.lastId ELSE InvalidId

(* ----------------------------- execDML --------------------------------- *)
Ret(w, b) == [w |-> w, ret |-> b]

(* The method op of instance o returns r: the return is noted in the       *)
(* world's trace of returns, innermost call first.                         *)
Returns(op, o, r) == Ret([r.w EXCEPT !.rets = Append(@, <<op, o, r.ret>>)], r.ret)

Invalid(w) == [w |-> w, valid |-> FALSE, stmt |-> NoneV]

Query(w, s) == [w |-> w, valid |-> TRUE, stmt |-> s]

execDML(o, q) ==
    IF ~q.valid THEN Ret(q.w, FALSE)
    ELSE LET c == dbCall(q.w)
             stmt == IssuedBy(o, q.stmt)
         IN
         IF ~c.ok
         THEN Ret(logStmt(c.w, [stmt EXCEPT !.ok = FALSE]), FALSE)
         ELSE LET s == IF stmt.kind = "INSERT"
                       THEN [stmt EXCEPT !.id = nextRowId(c.w.db[stmt.table])]
                       ELSE stmt
                  w2 == logStmt(dbApply(c.w, s), s)
                  lid == lastInsertId(w2, s)
              IN Ret(IF lid # InvalidId THEN setId(w2, o, toUInt(lid)) ELSE w2, TRUE)

(* ---------------------------- insertQuery ------------------------------ *)
insertQuery(w, o) ==
    LET t == w.heap[o].type
        c == dbCall(w)
    IN IF ~c.ok THEN Invalid(c.w)
       ELSE Query(c.w, Stmt("INSERT", t, PropSet(t),
                            [p \in PropSet(t) |-> read(c.w, o, p)], 0))

(* insert without its isSaved() guard *)
insert_Unguarded(w, o) ==
    Returns("insert", o, execDML(o, insertQuery(w, o)))

insert(w, o) ==
    Returns("insert", o,
        IF isSaved(w.heap[o]) THEN Ret(w, FALSE)
        ELSE execDML(o, insertQuery(w, o)))

(* ---------------------------- deleteQuery ------------------------------ *)
deleteQuery(w, o) ==
    LET t == w.heap[o].type
        c == dbCall(w)
    IN IF ~c.ok THEN Invalid(c.w)
       ELSE Query(c.w, Stmt("DELETE", t, {}, [p \in PropSet(t) |-> NoneV], w.heap[o].m_id))

deleteFromDatabase(w, o) ==
    LET r == execDML(o, deleteQuery(w, o)) IN
    Returns("delete", o,
        IF ~r.ret THEN Ret(r.w, FALSE)
        ELSE Ret([r.w EXCEPT !.heap[o].deleteLater = TRUE], TRUE))

(* ------------------------ update / updateQuery ------------------------- *)
(* A call nested deeper than any chain of distinct instances can only be a *)
(* cycle of dirty relations: the C++ recursion has no guard and never      *)
(* returns (w.crashed).                                                    *)
Fuel == MaxObjs + MaxRows + 2

Crash(w) == Ret([w EXCEPT !.crashed = TRUE], FALSE)

RECURSIVE update(_, _, _), updateQuery(_, _, _), bindModified(_, _, _, _, _)

(* the loop of updateQuery going on to bind the related entity's id when   *)
(* its insert() or update() has failed                                     *)
bindModified_IgnoreRelatedFailure(w, o, i, binds, fuel) ==
    LET m == w.heap[o]
        t == m.type
    IN IF i > Len(Props(t))
       THEN Query(w, Stmt("UPDATE", t, m.mod, binds, id(m)))
       ELSE LET p == Props(t)[i] IN
            IF p \notin m.mod THEN bindModified(w, o, i + 1, binds, fuel)
            ELSE IF ~isPropertyModel(t, p)
            THEN bindModified(w, o, i + 1, [binds EXCEPT ![p] = read(w, o, p)], fuel)
            ELSE LET model == m.props[p] IN
                 IF model = nullptr THEN Invalid([w EXCEPT !.crashed = TRUE])
                 ELSE LET unsaved == ~isSaved(w.heap[model])
                          r1 == IF unsaved THEN insert(w, model) ELSE Ret(w, TRUE)
                          r2 == IF isModified(r1.w.heap[model])
                                THEN update(r1.w, model, fuel - 1)
                                ELSE Ret(r1.w, TRUE)
                      IN bindModified(r2.w, o, i + 1,
                                      [binds EXCEPT ![p] = IntV(id(r2.w.heap[model]))],
                                      fuel)

(* The second loop of updateQuery (lines 201-219) from the i-th property   *)
(* on; binds holds the values bound so far.  The QSet is walked in         *)
(* declaration order: a type has one relation attribute, and binding a     *)
(* scalar has no effect on the heap or the database.                       *)
bindModified(w, o, i, binds, fuel) ==
    LET m == w.heap[o]
        t == m.type
    IN IF i > Len(Props(t))
       THEN Query(w, Stmt("UPDATE", t, m.mod, binds, id(m)))
       ELSE LET p == Props(t)[i] IN
            IF p \notin m.mod THEN bindModified(w, o, i + 1, binds, fuel)
            ELSE IF ~isPropertyModel(t, p)
            THEN bindModified(w, o, i + 1, [binds EXCEPT ![p] = read(w, o, p)], fuel)
            ELSE LET model == m.props[p] IN
                 IF model = nullptr THEN Invalid([w EXCEPT !.crashed = TRUE])
                 ELSE LET unsaved == ~isSaved(w.heap[model])
                          r1 == IF unsaved THEN insert(w, model) ELSE Ret(w, TRUE)
                      IN IF unsaved /\ ~r1.ret THEN Invalid(r1.w)
                         ELSE LET r2 == IF isModified(r1.w.heap[model])
                                        THEN update(r1.w, model, fuel - 1)
                                        ELSE Ret(r1.w, TRUE)
                              IN IF ~r2.ret THEN Invalid(r2.w)
                                 ELSE bindModified(r2.w, o, i + 1,
                                        [binds EXCEPT ![p] = IntV(id(r2.w.heap[model]))],
                                        fuel)

(* updateQuery building its SET list from every property, not from the    *)
(* modified ones                                                           *)
updateQuery_AllColumns(w, o, fuel) ==
    LET c == dbCall(w)
        t == w.heap[o].type
        q == bindModified(c.w, o, 1, [p \in PropSet(t) |-> NoneV], fuel)
    IN IF ~c.ok THEN Invalid(c.w)
       ELSE IF ~q.valid THEN q
       ELSE Query(q.w, Stmt("UPDATE", t, PropSet(t),
                            [p \in PropSet(t) |-> IF p \in q.stmt.cols THEN q.stmt.binds[p]
                                                   ELSE read(q.w, o, p)],
                            q.stmt.id))

updateQuery(w, o, fuel) ==
    LET c == dbCall(w) IN
    IF ~c.ok THEN Invalid(c.w)
    ELSE bindModified(c.w, o, 1, [p \in PropSet(w.heap[o].type) |-> NoneV], fuel)

(* update without its isModified() guard *)
update_NoModifiedGuard(w, o, fuel) ==
    IF fuel = 0 THEN Crash(w)
    ELSE Returns("update", o,
             IF ~isSaved(w.heap[o]) THEN Ret(w, FALSE)
             ELSE execDML(o, updateQuery(w, o, fuel)))

update(w, o, fuel) ==
    IF fuel = 0 THEN Crash(w)
    ELSE Returns("update", o,
             IF ~isSaved(w.heap[o]) THEN Ret(w, FALSE)
             ELSE IF ~isModified(w.heap[o]) THEN Ret(w, FALSE)
             ELSE execDML(o, updateQuery(w, o, fuel)))

(* -------------------------- load / loadRelated ------------------------- *)
(* QMetaProperty::write of a column value into a non-relation property:    *)
(* only a number converts to the property's type.                          *)
canWrite(t, p, dbValue) == ~isPropertyModel(t, p) /\ dbValue[1] = "int"

createRelatedInstance(w, t, p) ==
    [w EXCEPT !.heap = Append(@, Model(relatedType(t, p), w.garbage))]

(* setProperty("<name>Id", dbValue): a dynamic property of the instance *)
setProperty(w, o, p, v) == [w EXCEPT !.heap[o].dyn[p] = v]

RECURSIVE load(_, _, _, _, _), loadProperties(_, _, _, _, _, _)

(* the loop of load going on to the next property when the related         *)
(* instance could not be loaded, as if the write-back had succeeded        *)
loadProperties_IgnoreRelatedFailure(w, o, row, eagerLoad, i, fuel) ==
    LET t == w.heap[o].type IN
    IF i > Len(Props(t)) THEN Ret(w, TRUE)
    ELSE LET p == Props(t)[i]
             dbValue == row[p]
         IN IF isPropertyModel(t, p) /\ dbValue[1] = "int"
            THEN IF eagerLoad
                 THEN LET w1 == createRelatedInstance(w, t, p)
                          related == Len(w1.heap)
                          r == load(w1, related, toUInt(dbValue[2]), eagerLoad, fuel - 1)
                      IN loadProperties(IF r.ret THEN write(r.w, o, p, related) ELSE r.w,
                                        o, row, eagerLoad, i + 1, fuel)
                 ELSE loadProperties(setProperty(w, o, p, dbValue[2]), o, row,
                                     eagerLoad, i + 1, fuel)
            ELSE IF canWrite(t, p, dbValue)
                 THEN loadProperties(write(w, o, p, dbValue[2]), o, row,
                                     eagerLoad, i + 1, fuel)
                 ELSE IF eagerLoad THEN Ret(w, FALSE)
                      ELSE loadProperties(w, o, row, eagerLoad, i + 1, fuel)

(* The loop of load (lines 83-103) from the i-th property on. *)
loadProperties(w, o, row, eagerLoad, i, fuel) ==
    LET t == w.heap[o].type IN
    IF i > Len(Props(t)) THEN Ret(w, TRUE)
    ELSE LET p == Props(t)[i]
             dbValue == row[p]
         IN IF isPropertyModel(t, p) /\ dbValue[1] = "int"
            THEN IF eagerLoad
                 THEN LET w1 == createRelatedInstance(w, t, p)
                          related == Len(w1.heap)
                          r == load(w1, related, toUInt(dbValue[2]), eagerLoad, fuel - 1)
                      IN IF r.ret
                         THEN loadProperties(write(r.w, o, p, related), o, row,
                                             eagerLoad, i + 1, fuel)
                         ELSE Ret(r.w, FALSE)
                 ELSE loadProperties(setProperty(w, o, p, dbValue[2]), o, row,
                                     eagerLoad, i + 1, fuel)
            ELSE IF canWrite(t, p, dbValue)
                 THEN loadProperties(write(w, o, p, dbValue[2]), o, row,
                                     eagerLoad, i + 1, fuel)
                 ELSE IF eagerLoad THEN Ret(w, FALSE)
                      ELSE loadProperties(w, o, row, eagerLoad, i + 1, fuel)

load(w, o, rowId, eagerLoad, fuel) ==
    IF fuel = 0 THEN Crash(w)
    ELSE LET t == w.heap[o].type
             s == IssuedBy(o, Stmt("SELECT", t, PropSet(t), [p \in PropSet(t) |-> NoneV], rowId))
             c1 == dbCall(w)
         IN Returns("load", o,
                IF ~c1.ok THEN Ret(c1.w, FALSE)
                ELSE LET c2 == dbCall(c1.w) IN
                     IF ~c2.ok THEN Ret(logStmt(c2.w, [s EXCEPT !.ok = FALSE]), FALSE)
                     ELSE IF rowId \notin DOMAIN w.db[tableName(t)]
                          THEN Ret(logStmt(c2.w, s), FALSE)
                          ELSE loadProperties(logStmt(c2.w, [s EXCEPT !.found = TRUE]), o,
                                              w.db[tableName(t)][rowId], eagerLoad, 1, fuel))

loadRelated(w, o, p, eagerLoad, fuel) ==
    LET m == w.heap[o] IN
    Returns("loadRelated", o,
        IF m.dyn[p] = NoKey THEN Ret(w, FALSE)
        ELSE LET relatedId == toUInt(m.dyn[p])
                 w1 == createRelatedInstance(w, m.type, p)
                 related == Len(w1.heap)
                 r == load(w1, related, relatedId, eagerLoad, fuel)
             IN IF ~r.ret THEN Ret(r.w, FALSE)
                ELSE Ret(write(r.w, o, p, related), TRUE))

(* ------------------------------- state --------------------------------- *)
VARIABLES
    heap,      \* the Model instances constructed so far (an instance is its index)
    db,        \* db[table][row id][column]
    lastId,    \* the connection's last inserted row id (0: none yet)
    stale,     \* the driver reports lastId after statements other than INSERT
    garbage,   \* the indeterminate value an uninitialised m_id holds in this build
    crashed,   \* a call recursed without end
    cap,       \* the number of instances the application of this run ever holds
    last       \* the call that has just returned: its arguments, its result and the
               \* statements it executed (NoCall once the application has gone on)

vars == <<heap, db, lastId, stale, garbage, crashed, cap, last>>

(* The indeterminate value of an uninitialised m_id. *)
Indeterminate == {0, 1}

Objs == 1..Len(heap)

(* deleteLater() hands the instance to the event loop for destruction: the *)
(* application makes no further call on it.                                *)
Live == {o \in Objs : ~heap[o].deleteLater}

ObjsOf(t) == {o \in Objs : heap[o].type = t}

Table(rows) == [r \in DOMAIN rows |-> rows[r]]

(* Rows other applications left in the tables before the program starts:   *)
(* a well-formed Order, one whose total is NULL, one whose customer is     *)
(* absent and one whose foreign key is beyond 32 bits; a Customer next to  *)
(* the 32-bit boundary.                                                    *)
SeedEmpty == [Order |-> Table(<<>>), Customer |-> Table(<<>>)]

SeedLegacy ==
    [Customer |-> Table((1 :> [credit |-> IntV(1)]) @@ ((W32 - 1) :> [credit |-> IntV(1)])),
     Order |-> Table((1 :> [total |-> IntV(1), customer |-> IntV(1)])
                  @@ (2 :> [total |-> NullV, customer |-> IntV(1)])
                  @@ (3 :> [total |-> IntV(1), customer |-> IntV(2)])
                  @@ (4 :> [total |-> IntV(1), customer |-> IntV(W32 + 1)]))]

(* An empty Order table next to a Customer table whose ids have reached    *)
(* the 32-bit boundary: the next Customer gets the id 2^32.                *)
SeedBoundary ==
    [Customer |-> Table((W32 - 1) :> [credit |-> IntV(1)]),
     Order |-> Table(<<>>)]

Seeds == {SeedEmpty, SeedLegacy, SeedBoundary}

NoCall == [op |-> "none", obj |-> 0, prop |-> "", arg |-> 0, eager |-> FALSE, ret |-> FALSE,
           calls |-> 0, log |-> <<>>, rets |-> <<>>, heap0 |-> <<>>, db0 |-> <<>>,
           lastId0 |-> 0]

Init ==
    /\ heap = <<>>
    /\ db \in Seeds
    /\ lastId = 0
    /\ stale \in BOOLEAN
    /\ garbage \in Indeterminate
    /\ crashed = FALSE
    /\ cap = MaxObjs
    /\ last = NoCall

(* The world a call starts in: f is the number of the prepare()/exec()     *)
(* call that fails (0: none).                                              *)
World(f) ==
    [heap |-> heap, db |-> db, lastId |-> lastId, stale |-> stale,
     calls |-> 0, fault |-> f, garbage |-> garbage, log |-> <<>>, rets |-> <<>>,
     crashed |-> FALSE]

(* The application is between two calls. *)
Idle == last.op = "none" /\ ~crashed

(* The call returns r: the state takes the world it leaves.  A call that   *)
(* recursed without end (crashed) returns nothing: the instances are left  *)
(* as they were, the statements it had executed stay executed.             *)
Return(op, o, prop, arg, eager, r) ==
    /\ Idle
    /\ r.w.crashed \/ Len(r.w.heap) <= cap
    /\ \A t \in DOMAIN r.w.db : Cardinality(DOMAIN r.w.db[t]) <= MaxRows
    /\ heap' = IF r.w.crashed THEN heap ELSE r.w.heap
    /\ db' = r.w.db
    /\ lastId' = r.w.lastId
    /\ crashed' = r.w.crashed
    /\ last' = [op |-> op, obj |-> o, prop |-> prop, arg |-> arg, eager |-> eager, ret |-> r.ret,
                calls |-> r.w.calls, log |-> r.w.log, rets |-> r.w.rets,
                heap0 |-> heap, db0 |-> db, lastId0 |-> lastId]
    /\ UNCHANGED <<stale, garbage, cap>>

(* ------------------------------ actions -------------------------------- *)
(* new Order / new Customer *)
Construct ==
    \E t \in Types :
        /\ Return("new", Len(heap) + 1, "", 0, FALSE,
                  Ret([World(0) EXCEPT !.heap = Append(@, Model(t, garbage))], TRUE))

(* new Node *)
ConstructNode ==
    /\ Return("new", Len(heap) + 1, "", 0, FALSE,
              Ret([World(0) EXCEPT !.heap = Append(@, Model("Node", garbage))], TRUE))

(* a subclass setter of a scalar attribute *)
SetScalar ==
    \E o \in Live, v \in 1..MaxVal :
        \E p \in {q \in PropSet(heap[o].type) : ~isPropertyModel(heap[o].type, q)} :
            /\ Return("set", o, p, v, FALSE, Ret(write(World(0), o, p, v), TRUE))

(* a subclass setter of a relation attribute *)
SetRelation ==
    \E o \in Live :
        \E p \in {q \in PropSet(heap[o].type) : isPropertyModel(heap[o].type, q)} :
            \E v \in ObjsOf(relatedType(heap[o].type, p)) :
                    /\ Return("set", o, p, v, FALSE, Ret(write(World(0), o, p, v), TRUE))

Insert ==
    \E o \in Live, f \in 0..MaxFault :
        /\ Return("insert", o, "", 0, FALSE, insert(World(f), o))

Update ==
    \E o \in Live, f \in 0..MaxFault :
        /\ Return("update", o, "", 0, FALSE, update(World(f), o, Fuel))

DeleteFromDatabase ==
    \E o \in Live, f \in 0..MaxFault :
        /\ Return("delete", o, "", 0, FALSE, deleteFromDatabase(World(f), o))

LoadIds(t) == DOMAIN db[tableName(t)] \cup {nextRowId(db[tableName(t)])}

Load ==
    \E o \in Live, eagerLoad \in BOOLEAN, f \in 0..MaxFault :
        \E rowId \in LoadIds(heap[o].type) :
            /\ Return("load", o, "", rowId, eagerLoad, load(World(f), o, rowId, eagerLoad, Fuel))

LoadRelated ==
    \E o \in Live, eagerLoad \in BOOLEAN, f \in 0..MaxFault :
        \E p \in {q \in PropSet(heap[o].type) : isPropertyModel(heap[o].type, q)} :
            /\ Return("loadRelated", o, p, 0, eagerLoad,
                      loadRelated(World(f), o, p, eagerLoad, Fuel))

(* The application has looked at the result of the call and goes on. *)
Resume ==
    /\ last.op # "none"
    /\ ~crashed
    /\ last' = NoCall
    /\ UNCHANGED <<heap, db, lastId, stale, garbage, crashed, cap>>

Next ==
    \/ Resume
    \/ Construct
    \/ SetScalar
    \/ SetRelation
    \/ Insert
    \/ Update
    \/ DeleteFromDatabase
    \/ Load
    \/ LoadRelated

Spec == Init /\ [][Next]_vars

(* The program run against tables that start empty: every row is one the   *)
(* program inserted, and every generated id is small.                      *)
InitFresh == Init /\ db = SeedEmpty

SpecFresh == InitFresh /\ [][Next]_vars

(* The program run on a self-referential table: a chain of rows that ends  *)
(* in NULL, in the key 0 and in a key without row; rows that reference     *)
(* themselves and each other; a row whose key is beyond 32 bits.           *)
NodeRow(v) == [parent |-> v]

SeedTreeEmpty == [Node |-> Table(<<>>)]

SeedChain ==
    [Node |-> Table((1 :> NodeRow(NullV)) @@ (2 :> NodeRow(IntV(1)))
                 @@ (3 :> NodeRow(IntV(0))) @@ (4 :> NodeRow(IntV(5))))]

SeedCycle ==
    [Node |-> Table((1 :> NodeRow(IntV(1))) @@ (2 :> NodeRow(IntV(3)))
                 @@ (3 :> NodeRow(IntV(2))) @@ (4 :> NodeRow(IntV(2))))]

SeedWrap ==
    [Node |-> Table((1 :> NodeRow(IntV(W32 + 1))) @@ ((W32 + 1) :> NodeRow(NullV)))]

TreeSeeds == {SeedTreeEmpty, SeedChain, SeedCycle, SeedWrap}

InitTree ==
    /\ heap = <<>>
    /\ db \in TreeSeeds
    /\ lastId = 0
    /\ stale \in BOOLEAN
    /\ garbage \in Indeterminate
    /\ crashed = FALSE
    /\ cap = MaxObjs
    /\ last = NoCall

NextTree ==
    \/ Resume
    \/ ConstructNode
    \/ SetRelation
    \/ Insert
    \/ Update
    \/ DeleteFromDatabase
    \/ Load
    \/ LoadRelated

SpecTree == InitTree /\ [][NextTree]_vars

(* An application that builds chains of Nodes and saves them: more         *)
(* instances, an empty table, and no call other than the constructor, the  *)
(* setter, insert() and update().                                          *)
InitChain ==
    /\ heap = <<>>
    /\ db = SeedTreeEmpty
    /\ lastId = 0
    /\ stale \in BOOLEAN
    /\ garbage \in Indeterminate
    /\ crashed = FALSE
    /\ cap = MaxNodes
    /\ last = NoCall

NextChain ==
    \/ Resume
    \/ ConstructNode
    \/ SetRelation
    \/ Insert
    \/ Update

SpecChain == InitChain /\ [][NextChain]_vars

(* ======================================================================= *)
(* The claims.  A claim about a call is stated of the state in which the   *)
(* call has just returned: Pre is the instance as the call found it, Obj   *)
(* the instance as the call left it.                                       *)
(* ======================================================================= *)
Pre == last.heap0[last.obj]

Obj == heap[last.obj]

Fresh(m) == m = Model(m.type, garbage)

(* the statements of the call's log, as a set *)
Executed == {last.log[i] : i \in DOMAIN last.log}

(* the call's INSERT was prepared and executed without error *)
InsertExecuted == Len(last.log) = 1 /\ last.log[1].kind = "INSERT" /\ last.log[1].ok

(* C1: insert() on an unsaved entity (id = 0): if the statement prepares   *)
(* and executes, insert() returns true and the entity's id is the non-zero *)
(* id the database generated for the row (isSaved() holds); if preparing   *)
(* or executing fails, insert() returns false and the id stays 0.          *)
C1_InsertAssignsGeneratedId ==
    (last.op = "insert" /\ Pre.m_id = 0) =>
        IF InsertExecuted
        THEN /\ last.ret
             /\ id(Obj) = last.log[1].id
             /\ id(Obj) # 0
             /\ isSaved(Obj)
        ELSE ~last.ret /\ id(Obj) = 0

(* C2: insert() on a saved entity (id # 0) and update() on an unsaved      *)
(* entity (id = 0) return false, make no prepare() or exec() call, execute *)
(* no statement and leave the entity's id and dirty set as they were.      *)
C2_StateGuards ==
    (\/ last.op = "insert" /\ Pre.m_id # 0
     \/ last.op = "update" /\ Pre.m_id = 0) =>
        /\ ~last.ret
        /\ last.calls = 0
        /\ last.log = <<>>
        /\ db = last.db0
        /\ id(Obj) = id(Pre)
        /\ Obj.mod = Pre.mod

C2_Witness ==
    /\ last.op = "insert"
    /\ Pre.m_id # 0
    /\ Pre.mod # {}
    /\ Pre.m_id \in DOMAIN last.db0[tableName(Pre.type)]

(* C3 as claimed: update() on a saved entity whose dirty set is empty      *)
(* issues no statement and returns true.                                   *)
C3_NoOpUpdateSucceeds ==
    (last.op = "update" /\ Pre.m_id # 0 /\ Pre.mod = {}) =>
        /\ last.log = <<>>
        /\ last.ret

(* C3 as amended: update() on a saved entity whose dirty set is empty      *)
(* issues no statement (no prepare() or exec() call is made, the database  *)
(* is unchanged) and returns false.                                        *)
C3_NoOpUpdateReturnsFalse ==
    (last.op = "update" /\ Pre.m_id # 0 /\ Pre.mod = {}) =>
        /\ last.calls = 0
        /\ last.log = <<>>
        /\ db = last.db0
        /\ ~last.ret

C3_Witness ==
    /\ last.op = "update"
    /\ Pre.m_id # 0
    /\ Pre.mod = {}
    /\ Pre.m_id \in DOMAIN last.db0[tableName(Pre.type)]

(* C4: every UPDATE that update() executes on the entity's own table, for  *)
(* a saved entity with a non-empty dirty set, assigns exactly the columns  *)
(* of the dirty set as it was when update() was called and is restricted   *)
(* to the row whose id is the entity's id; the call executes no other      *)
(* statement on that table, and in the table only that row, and of it only *)
(* the columns of the dirty set, can have changed.                         *)
C4_DirtyMinimality ==
    (last.op = "update" /\ Pre.m_id # 0 /\ Pre.mod # {}) =>
        LET t == tableName(Pre.type) IN
        /\ \A s \in Executed :
               s.table = t =>
                   /\ s.kind = "UPDATE"
                   /\ s.cols = Pre.mod
                   /\ s.id = id(Pre)
                   /\ \A p \in PropSet(Pre.type) : (s.binds[p] # NoneV) <=> (p \in Pre.mod)
        /\ DOMAIN db[t] = DOMAIN last.db0[t]
        /\ \A r \in DOMAIN db[t] :
               \A p \in PropSet(Pre.type) :
                   (r # id(Pre) \/ p \notin Pre.mod) => db[t][r][p] = last.db0[t][r][p]

(* an UPDATE of an existing Order row that changed the one dirty column *)
C4_Witness ==
    /\ last.op = "update"
    /\ last.ret
    /\ Pre.type = "Order"
    /\ Pre.mod = {"total"}
    /\ id(Pre) \in DOMAIN last.db0["Order"]
    /\ db["Order"][id(Pre)] # last.db0["Order"][id(Pre)]

RelProps(t) == {p \in PropSet(t) : isPropertyModel(t, p)}

(* C5: after load(id, eagerLoad) has returned true on a freshly            *)
(* constructed instance, isSaved() is true and id() is the id loaded, so   *)
(* that a following insert() is rejected.                                  *)
C5_LoadMakesSaved ==
    (last.op = "load" /\ last.ret /\ Fresh(Pre)) =>
        /\ isSaved(Obj)
        /\ id(Obj) = last.arg
        /\ ~insert(World(0), last.obj).ret

(* C6: a successful insert() on an unsaved entity with a relation          *)
(* attribute whose related entity is unsaved first executes the INSERT of  *)
(* the related entity, which assigns it an id, then the outer INSERT with  *)
(* the relation column bound to that id, and then assigns the outer entity *)
(* the id generated for its own row.                                       *)
C6_InsertPersistsRelatedFirst ==
    \A p \in RelProps("Order") :
        (/\ last.op = "insert"
         /\ last.ret
         /\ Pre.type = "Order"
         /\ Pre.m_id = 0
         /\ Pre.props[p] # nullptr
         /\ ~isSaved(last.heap0[Pre.props[p]])) =>
            LET related == Pre.props[p] IN
            /\ Len(last.log) = 2
            /\ last.log[1].kind = "INSERT"
            /\ last.log[1].table = tableName(relatedType("Order", p))
            /\ isSaved(heap[related])
            /\ last.log[2].kind = "INSERT"
            /\ last.log[2].table = tableName("Order")
            /\ last.log[2].binds[p] = IntV(id(heap[related]))
            /\ id(Obj) = last.log[2].id

(* The attribute values of instance o in world w, a relation attribute     *)
(* through the attributes of the entity it holds.                          *)
Values(w, o) ==
    LET m == w.heap[o] IN
    [p \in PropSet(m.type) |->
        IF isPropertyModel(m.type, p)
        THEN IF m.props[p] = nullptr
             THEN [set |-> FALSE, scalar |-> 0, related |-> Model(relatedType(m.type, p), 0).props]
             ELSE [set |-> TRUE, scalar |-> 0, related |-> w.heap[m.props[p]].props]
        ELSE [set |-> TRUE, scalar |-> m.props[p],
              related |-> Model(relatedType(m.type, p), 0).props]]

(* load(rowId, eagerLoad) called on a fresh instance of type t in the      *)
(* current state; the instance is Len(heap) + 1.                           *)
LoadFresh(t, rowId, eagerLoad) ==
    load([World(0) EXCEPT !.heap = Append(@, Model(t, garbage))],
         Len(heap) + 1, rowId, eagerLoad, Fuel)

(* C7: for every entity whose persistent attributes have all been set and  *)
(* whose insert() succeeded, load(e.id(), true) on a fresh instance of its *)
(* type returns true and yields the attribute values of e.                 *)
C7_RoundTrip ==
    (/\ last.op = "insert"
     /\ last.ret
     /\ Pre.m_id = 0
     /\ Pre.mod = PropSet(Pre.type)) =>
        LET r == LoadFresh(Pre.type, id(Obj), TRUE) IN
        /\ r.ret
        /\ Values(r.w, Len(heap) + 1) = Values(World(0), last.obj)

(* C8: after load(id, false) has returned true, every relation attribute   *)
(* whose column holds an integer foreign key k is left as it was (unset on *)
(* a fresh instance) and k is the value of the dynamic property            *)
(* "<name>Id"; a loadRelated(name) that returns true has set the relation  *)
(* attribute to a new entity holding the attribute values of the related   *)
(* table's row with id k.                                                  *)
C8_LazyLoadKeepsForeignKey ==
    /\ (last.op = "load" /\ ~last.eager /\ last.ret) =>
           LET row == last.db0[tableName(Pre.type)][last.arg] IN
           \A p \in RelProps(Pre.type) :
               row[p][1] = "int" =>
                   /\ Obj.props[p] = Pre.props[p]
                   /\ Obj.dyn[p] = row[p][2]
    /\ (last.op = "loadRelated" /\ last.ret) =>
           LET p == last.prop
               k == Pre.dyn[p]
               rt == relatedType(Pre.type, p)
               related == Obj.props[p]
           IN /\ related > Len(last.heap0)
              /\ heap[related].type = rt
              /\ k \in DOMAIN last.db0[tableName(rt)]
              /\ \A q \in PropSet(rt) :
                     last.db0[tableName(rt)][k][q] = IntV(heap[related].props[q])

RECURSIVE ResolveRelations(_, _, _)

(* loadRelated(name) for each relation attribute of o from the i-th        *)
(* property on, until one fails.                                           *)
ResolveRelations(w, o, i) ==
    LET t == w.heap[o].type IN
    IF i > Len(Props(t)) THEN Ret(w, TRUE)
    ELSE IF ~isPropertyModel(t, Props(t)[i]) THEN ResolveRelations(w, o, i + 1)
    ELSE LET r == loadRelated(w, o, Props(t)[i], TRUE, Fuel) IN
         IF r.ret THEN ResolveRelations(r.w, o, i + 1) ELSE r

(* load(rowId, false) on a fresh instance of type t, then loadRelated of   *)
(* each relation attribute *)
LoadLazyThenResolve(t, rowId) ==
    LET l == LoadFresh(t, rowId, FALSE) IN
    IF l.ret THEN ResolveRelations(l.w, Len(heap) + 1, 1) ELSE l

(* C9: for every row, load(id, false) followed by loadRelated of each      *)
(* relation attribute reports success exactly when load(id, true) does,    *)
(* and then yields the same attribute values.                              *)
C9_LazyEagerEquivalence ==
    \A t \in Types :
        \A rowId \in DOMAIN db[tableName(t)] :
            LET e == LoadFresh(t, rowId, TRUE)
                l == LoadLazyThenResolve(t, rowId)
            IN /\ e.ret = l.ret
               /\ e.ret => Values(e.w, Len(heap) + 1) = Values(l.w, Len(heap) + 1)

(* the returns of the load() calls made on related instances *)
RelatedLoads == {last.rets[i] : i \in {j \in DOMAIN last.rets :
                                          /\ last.rets[j][1] = "load"
                                          /\ last.rets[j][2] # last.obj}}

(* C10: in load(id, true), if the load() of a related entity returns       *)
(* false, the outer load() returns false; if it returns true, the relation *)
(* attribute holds the related entity it loaded.                           *)
C10_EagerFailurePropagates ==
    (last.op = "load" /\ last.eager) =>
        \A e \in RelatedLoads :
            IF e[3]
            THEN \E p \in RelProps(Pre.type) :
                     /\ Obj.props[p] = e[2]
                     /\ heap[e[2]].type = relatedType(Pre.type, p)
            ELSE ~last.ret

(* the related row is absent: the second SELECT finds nothing *)
C10_Witness ==
    /\ last.op = "load"
    /\ last.eager
    /\ ~last.ret
    /\ Len(last.log) = 2
    /\ last.log[2].ok
    /\ ~last.log[2].found
    /\ <<"load", Len(last.heap0) + 1, FALSE>> \in RelatedLoads

(* The worlds a later call on instance o may start in: the current one, or *)
(* the current one after one of o's setters has been called.               *)
AfterSetters(o) ==
    LET t == heap[o].type IN
    {World(0)}
    \cup {write(World(0), o, p, v) : p \in PropSet(t) \ RelProps(t), v \in 1..MaxVal}
    \cup UNION {{write(World(0), o, p, v) : v \in ObjsOf(relatedType(t, p))} : p \in RelProps(t)}

(* C11: after deleteFromDatabase() has returned true for an entity, every  *)
(* later insert() and every later update() on it, whatever setter was      *)
(* called in between, returns false and executes no statement.  (The       *)
(* instance is destroyed by deleteLater() only when control is back in the *)
(* event loop: a call made before that runs on the instance as             *)
(* deleteFromDatabase left it.)                                            *)
C11_DeleteFinality ==
    (last.op = "delete" /\ last.ret) =>
        \A w \in AfterSetters(last.obj) :
            LET i == insert(w, last.obj)
                u == update(w, last.obj, Fuel)
            IN /\ ~i.ret
               /\ i.w.log = <<>>
               /\ ~u.ret
               /\ u.w.log = <<>>

(* C12: a name is in the dirty set exactly if the caller invoked its       *)
(* setter since the entity was constructed or last loaded.  Call by call:  *)
(* a constructed entity has an empty dirty set, a setter adds its name and *)
(* nothing else, a successful load() leaves the dirty set empty (whatever  *)
(* it held before), and insert(), update(), deleteFromDatabase() and       *)
(* loadRelated() leave the dirty set of every entity as it was.            *)
C12_DirtySetInvariant ==
    /\ last.op = "new" => Obj.mod = {}
    /\ last.op = "set" => Obj.mod = Pre.mod \cup {last.prop}
    /\ (last.op = "load" /\ last.ret) => ~isModified(Obj)
    /\ last.op \in {"insert", "update", "delete", "loadRelated"} =>
           \A o \in DOMAIN last.heap0 : heap[o].mod = last.heap0[o].mod

(* C13: every newly constructed entity, before any operation is called on  *)
(* it, has id() = 0 and isSaved() false; its first insert() is accepted    *)
(* (the INSERT is prepared and executed) and its first update() is         *)
(* rejected without a statement.                                           *)
C13_ConstructedUnsaved ==
    last.op = "new" =>
        /\ id(Obj) = 0
        /\ ~isSaved(Obj)
        /\ \E s \in {insert(World(0), last.obj).w.log[i] :
                        i \in DOMAIN insert(World(0), last.obj).w.log} : s.kind = "INSERT"
        /\ \A w \in AfterSetters(last.obj) :
               LET u == update(w, last.obj, Fuel) IN ~u.ret /\ u.w.log = <<>>

(* the call executed the entity's own UPDATE as its last statement *)
OuterUpdateExecuted ==
    /\ last.log # <<>>
    /\ last.log[Len(last.log)].kind = "UPDATE"
    /\ last.log[Len(last.log)].table = tableName(Pre.type)
    /\ last.log[Len(last.log)].id = id(Pre)
    /\ last.log[Len(last.log)].ok

(* the kinds of the statements the call executed before its last one *)
EarlierKinds == [i \in 1..(Len(last.log) - 1) |-> last.log[i].kind]

(* C14: when update() on a saved entity with a dirty relation attribute    *)
(* executes the entity's UPDATE, the statements executed before it are     *)
(* exactly what the state of the related entity called for, on the related *)
(* entity's table: one INSERT and no UPDATE if it was unsaved, one UPDATE  *)
(* if it was saved and dirty, none if it was saved and not dirty; and the  *)
(* entity's UPDATE binds the relation column to the id the related entity  *)
(* has after that.                                                         *)
C14_UpdatePersistsRelated ==
    \A p \in RelProps("Order") :
        (/\ last.op = "update"
         /\ Pre.type = "Order"
         /\ Pre.m_id # 0
         /\ p \in Pre.mod
         /\ OuterUpdateExecuted) =>
            LET related == Pre.props[p]
                r0 == last.heap0[related]
            IN /\ EarlierKinds = IF ~isSaved(r0) THEN <<"INSERT">>
                                 ELSE IF isModified(r0) THEN <<"UPDATE">>
                                 ELSE <<>>
               /\ \A i \in 1..(Len(last.log) - 1) :
                      /\ last.log[i].table = tableName(relatedType("Order", p))
                      /\ last.log[i].ok
               /\ last.log[Len(last.log)].binds[p] = IntV(id(heap[related]))

(* C16: no call removes a name from the dirty set of any entity; and after *)
(* update() has returned true, a second update() with no setter call in    *)
(* between executes an UPDATE of the entity's table over the same columns  *)
(* again.                                                                  *)
C16_DirtySetOnlyGrows ==
    /\ last.op # "none" =>
           \A o \in DOMAIN last.heap0 : last.heap0[o].mod \subseteq heap[o].mod
    /\ (last.op = "update" /\ last.ret) =>
           LET u == update(World(0), last.obj, Fuel) IN
           /\ u.w.log # <<>>
           /\ u.w.log[Len(u.w.log)].kind = "UPDATE"
           /\ u.w.log[Len(u.w.log)].table = tableName(Pre.type)
           /\ u.w.log[Len(u.w.log)].cols = Pre.mod
           /\ u.w.log[Len(u.w.log)].ok

(* the non-relation columns of the row whose value cannot be written back  *)
(* into the attribute                                                      *)
Unwritable(t, row) == {p \in PropSet(t) \ RelProps(t) : ~canWrite(t, p, row[p])}

(* C17: load(id, eagerLoad) returns false when the row is absent, and      *)
(* returns false when the value of a non-relation column cannot be written *)
(* back into its attribute, with eagerLoad true and with eagerLoad false.  *)
C17_LoadReportsWriteBackFailure ==
    (last.op = "load") =>
        LET tbl == last.db0[tableName(Pre.type)] IN
        /\ last.arg \notin DOMAIN tbl => ~last.ret
        /\ (last.arg \in DOMAIN tbl /\ Unwritable(Pre.type, tbl[last.arg]) # {}) => ~last.ret

(* C19: update() and deleteFromDatabase(), successful or failed, leave the *)
(* id of the entity they are called on as it was, whatever the             *)
(* connection's last inserted row id is; the id of an entity changes only  *)
(* in a call in which insert() returned true on that entity.               *)
C19_IdChangesOnlyByInsert ==
    /\ last.op \in {"update", "delete"} => id(Obj) = id(Pre)
    /\ last.op # "none" =>
           \A o \in DOMAIN last.heap0 :
               id(heap[o]) # id(last.heap0[o]) =>
                   \E i \in DOMAIN last.rets : last.rets[i] = <<"insert", o, TRUE>>

(* C20: no id is reduced modulo 2^32: the id recorded by a successful      *)
(* insert() is the id the database generated for the row; the SELECT of    *)
(* the related row in an eager load() asks for the key stored in the       *)
(* relation column; the SELECT of loadRelated() asks for the key stored    *)
(* under "<name>Id".                                                       *)
C20_NoTruncation ==
    /\ (last.op = "insert" /\ last.ret /\ Pre.m_id = 0) =>
           /\ InsertExecuted
           /\ id(Obj) = last.log[1].id
           /\ isSaved(Obj)
    /\ (last.op = "load" /\ last.eager /\ Len(last.log) >= 2) =>
           \E p \in RelProps(Pre.type) :
               /\ last.db0[tableName(Pre.type)][last.arg][p][1] = "int"
               /\ last.log[2].id = last.db0[tableName(Pre.type)][last.arg][p][2]
    /\ (last.op = "loadRelated" /\ last.log # <<>>) =>
           last.log[1].id = Pre.dyn[last.prop]

(* the returns of the insert() and update() calls the call made on related *)
(* entities, at any depth: every return noted before the call's own        *)
NestedPersists ==
    {last.rets[i] : i \in {j \in 1..(Len(last.rets) - 1) :
                              last.rets[j][1] \in {"insert", "update"}}}

(* C15: if, while update() persists dirty relation attributes, the         *)
(* insert() or update() of a related entity returns false, at whatever     *)
(* depth, then update() of the outer entity returns false, no statement of *)
(* the outer entity is handed to exec(), and the outer entity's id and     *)
(* dirty set are as they were.                                             *)
C15_RelatedFailureAbortsUpdate ==
    (/\ last.op = "update"
     /\ ~crashed
     /\ \E e \in NestedPersists : ~e[3]) =>
        /\ ~last.ret
        /\ \A s \in Executed : s.by # last.obj
        /\ id(Obj) = id(Pre)
        /\ Obj.mod = Pre.mod

(* a -> b -> c: the INSERT of c fails two levels below the outer update(), *)
(* after b itself had nothing wrong                                        *)
C15_Witness ==
    /\ last.op = "update"
    /\ ~crashed
    /\ ~last.ret
    /\ Len(last.rets) = 3
    /\ last.rets[1][1] = "insert" /\ ~last.rets[1][3]
    /\ last.rets[2][1] = "update" /\ ~last.rets[2][3]
    /\ last.rets[3] = <<"update", last.obj, FALSE>>
    /\ Cardinality({last.rets[1][2], last.rets[2][2], last.obj}) = 3

RECURSIVE ChainEnds(_, _, _, _)

(* Following the keys stored in relation column p from the row with id k,  *)
(* a NULL (or other non-key) value or an id without row (the key 0 is one) *)
(* is reached within n steps.                                              *)
ChainEnds(tbl, p, k, n) ==
    IF k \notin DOMAIN tbl THEN TRUE
    ELSE IF tbl[k][p][1] # "int" THEN TRUE
    ELSE IF n = 0 THEN FALSE
    ELSE ChainEnds(tbl, p, tbl[k][p][2], n - 1)

(* the keys stored from row k on run into no cycle *)
Acyclic(tbl, p, k) == ChainEnds(tbl, p, k, Cardinality(DOMAIN tbl))

(* C18: load(id, true) of a row of the self-referential table returns if   *)
(* the chain of stored foreign keys starting at the row contains no cycle, *)
(* and never returns if the row references itself or a cycle of rows.      *)
C18_EagerLoadTerminatesIffAcyclic ==
    \A rowId \in DOMAIN db["Node"] :
        LoadFresh("Node", rowId, TRUE).w.crashed <=> ~Acyclic(db["Node"], "parent", rowId)

====
